---- MODULE Spec2Model ----
(***************************************************************************)
(* Model of ncclient/xml_.py: the XML helper functions of ncclient built   *)
(* on xml.etree (cElementTree).                                            *)
(*                                                                         *)
(* Python strings are TLA+ strings (TLC evaluates Len, \o, SubSeq on       *)
(* them), Python dicts are functions, Python lists are sequences, and a    *)
(* Python value whose type the code inspects is a record tagged with its   *)
(* type in field t ("None", "str", "list", "ele").                         *)
(*                                                                         *)
(* xml.etree itself is not part of the file.  Where the file's behaviour   *)
(* is decided by the library, the model follows the two library            *)
(* generations the file supports (see line 42-48): ElementTree 1.2         *)
(* (Python 2.5/2.6, no ET.register_namespace) and ElementTree 1.3          *)
(* (Python 2.7).  Which one is installed is the variable etree.            *)
(***************************************************************************)
EXTENDS Integers, Sequences, FiniteSets, TLC

VARIABLES
    etree,      \* installed xml.etree generation: "1.2" or "1.3"
    nsmap,      \* ElementTree._namespace_map: namespace URI -> prefix
    pending,    \* URIs of prefix_map the module-load loop has not registered yet
    nregs,      \* number of register_namespace calls made after module load
    lastOk,     \* history: URI -> prefix of its most recent successful registration
    elems,      \* the Element objects alive: identity (index) -> [tag, attrib, children]
    call,       \* the most recent call: its name and arguments
    ret         \* its outcome: [kind |-> "ok" or the exception raised, ...]

vars == <<etree, nsmap, pending, nregs, lastOk, elems, call, ret>>

-----------------------------------------------------------------------------
(* Bounds *)

MaxRegs == 2        \* register_namespace calls after module load
MaxElems == 2       \* Element objects alive at once
ChunkItems == 2     \* markup items per read of iterparse (stands for 16384 bytes)

-----------------------------------------------------------------------------
(* Python string and dict primitives *)

startswith(s, p) == Len(s) >= Len(p) /\ SubSeq(s, 1, Len(p)) = p

\* p in s, for two strings: substring test
StrContains(s, p) ==
    \E i \in 1..(Len(s) - Len(p) + 1) : SubSeq(s, i, i + Len(p) - 1) = p

\* number of occurrences of p in s
StrCount(s, p) ==
    Cardinality({i \in 1..(Len(s) - Len(p) + 1) : SubSeq(s, i, i + Len(p) - 1) = p})

Digits == {"0", "1", "2", "3", "4", "5", "6", "7", "8", "9"}

EmptyDict == [k \in {} |-> ""]

\* d[k] = v
DictSet(d, k, v) == [j \in DOMAIN d \cup {k} |-> IF j = k THEN v ELSE d[j]]

\* d.copy(); d.update(e)
DictUpdate(d, e) == [j \in DOMAIN d \cup DOMAIN e |-> IF j \in DOMAIN e THEN e[j] ELSE d[j]]

-----------------------------------------------------------------------------
(* Namespaces *)

BASE_NS_1_0 == "urn:ietf:params:xml:ns:netconf:base:1.0"
TAILF_AAA_1_1 == "http://tail-f.com/ns/aaa/1.1"
TAILF_EXECD_1_1 == "http://tail-f.com/ns/execd/1.1"
CISCO_CPI_1_0 == "http://www.cisco.com/cpi_10/schema"
FLOWMON_1_0 == "http://www.liberouter.org/ns/netopeer/flowmon/1.0"

\* the table xml.etree.ElementTree starts with
LibraryNamespaceMap ==
    ("http://www.w3.org/XML/1998/namespace" :> "xml")
    @@ ("http://www.w3.org/1999/xhtml" :> "html")
    @@ ("http://www.w3.org/1999/02/22-rdf-syntax-ns#" :> "rdf")
    @@ ("http://schemas.xmlsoap.org/wsdl/" :> "wsdl")
    @@ ("http://www.w3.org/2001/XMLSchema" :> "xs")
    @@ ("http://www.w3.org/2001/XMLSchema-instance" :> "xsi")
    @@ ("http://purl.org/dc/elements/1.1/" :> "dc")

\* prefix_map with a copy-and-paste slip: two URIs share the prefix 'nc'
prefix_map_dup ==
    (BASE_NS_1_0 :> "nc")
    @@ (TAILF_AAA_1_1 :> "aaa")
    @@ (TAILF_EXECD_1_1 :> "execd")
    @@ (CISCO_CPI_1_0 :> "cpi")
    @@ (FLOWMON_1_0 :> "nc")

prefix_map ==
    (BASE_NS_1_0 :> "nc")
    @@ (TAILF_AAA_1_1 :> "aaa")
    @@ (TAILF_EXECD_1_1 :> "execd")
    @@ (CISCO_CPI_1_0 :> "cpi")
    @@ (FLOWMON_1_0 :> "fm")

\* ET.register_namespace exists (the try at line 42 succeeds)
HasRegisterNamespace(ver) == ver = "1.3"

\* re.match("ns\d+$", prefix) in ET.register_namespace
ReservedPrefix(prefix) ==
    /\ startswith(prefix, "ns")
    /\ Len(prefix) > 2
    /\ \A i \in 3..Len(prefix) : SubSeq(prefix, i, i) \in Digits

\* ET.register_namespace of ElementTree 1.3: rejects reserved prefixes, drops
\* every entry with the same URI or the same prefix, then sets the entry
ET_register_namespace(map, prefix, uri) ==
    IF ReservedPrefix(prefix)
    THEN [kind |-> "ValueError", map |-> map]
    ELSE LET kept == {k \in DOMAIN map : k # uri /\ map[k] # prefix}
         IN [kind |-> "ok",
             map |-> [k \in kept \cup {uri} |-> IF k = uri THEN prefix ELSE map[k]]]

\* the fallback with the assignment lost when the URI is already in the table
fallback_register_namespace_keep(map, prefix, uri) ==
    [kind |-> "ok",
     map |-> IF uri \in DOMAIN map THEN map ELSE DictSet(map, uri, prefix)]

\* the fallback of line 45-48: ElementTree._namespace_map[uri] = prefix
fallback_register_namespace(map, prefix, uri) ==
    [kind |-> "ok", map |-> DictSet(map, uri, prefix)]

\* register_namespace as bound at line 42-48
register_namespace(ver, map, prefix, uri) ==
    IF HasRegisterNamespace(ver)
    THEN ET_register_namespace(map, prefix, uri)
    ELSE fallback_register_namespace(map, prefix, uri)

\* arguments of the register_namespace calls made after module load
RegPrefixes == {"nc", "p", "ns1"}
RegUris == {BASE_NS_1_0, "urn:x"}

-----------------------------------------------------------------------------
(* Python values whose type the code inspects *)

NoneV == [t |-> "None"]
StrV(s) == [t |-> "str", s |-> s]
ListV(q) == [t |-> "list", items |-> q]
EleV(i) == [t |-> "ele", id |-> i]

\* bool(v)
Truthy(v) ==
    CASE v.t = "None" -> FALSE
      [] v.t = "str" -> Len(v.s) > 0
      [] v.t = "list" -> Len(v.items) > 0
      [] OTHER -> TRUE

\* isinstance(v, basestring)
IsBasestring(v) == v.t = "str"

\* a == b
PyEq(a, b) == a = b

\* the items a for loop over c visits: the characters of a string, the items of a list
PyIter(c) ==
    IF c.t = "str" THEN [i \in 1..Len(c.s) |-> StrV(SubSeq(c.s, i, i))] ELSE c.items

\* x in c, for c a string (substring test) or a list (an equal item)
PyIn(x, c) ==
    IF c.t = "str"
    THEN x.t = "str" /\ StrContains(c.s, x.s)
    ELSE \E i \in DOMAIN c.items : PyEq(c.items[i], x)

-----------------------------------------------------------------------------
(* Elements.  An Element is [tag, attrib, children]; children holds the     *)
(* identities of its children in order.  Tag names carry no namespace.      *)

Element(tag, attrib) == [tag |-> tag, attrib |-> attrib, children |-> <<>>]

\* parent.append(child)
AppendChild(heap, parent, child) ==
    [heap EXCEPT ![parent].children = Append(@, child)]

\* ET.Element(tag, attrs, **extra): a new Element whose attrib is a copy of
\* attrs updated with extra
new_ele(heap, tag, attrs, extra) ==
    [heap |-> Append(heap, Element(tag, DictUpdate(attrs, extra))),
     ele |-> Len(heap) + 1]

\* sub_ele that calls ET.Element like new_ele: the child is never attached
sub_ele_detached(heap, parent, tag, attrs, extra) ==
    new_ele(heap, tag, attrs, extra)

\* ET.SubElement(parent, tag, attrs, **extra): a new Element appended to parent
sub_ele(heap, parent, tag, attrs, extra) ==
    LET n == new_ele(heap, tag, attrs, extra)
    IN [heap |-> AppendChild(n.heap, parent, n.ele), ele |-> n.ele]

-----------------------------------------------------------------------------
(* Raw XML.  A document is the sequence of its markup items: a start tag,   *)
(* an empty-element tag, an end tag, or markup that is not well-formed.     *)

Item(k, tag, attrib) == [k |-> k, tag |-> tag, attrib |-> attrib]
StartTag(tag, attrib) == Item("start", tag, attrib)
EmptyTag(tag, attrib) == Item("empty", tag, attrib)
EndTag(tag) == Item("end", tag, EmptyDict)
BadMarkup == Item("bad", "", EmptyDict)

X1 == "x" :> "1"
X2 == "x" :> "2"
Y1 == "y" :> "1"

DocTree == <<StartTag("a", X1), EmptyTag("b", EmptyDict), EndTag("a")>>     \* <a x="1"><b/></a>
DocBadChild == <<StartTag("a", X1), BadMarkup, EndTag("a")>>                  \* <a x="1"><b</a>
DocBadLate == <<StartTag("a", EmptyDict), EmptyTag("b", EmptyDict), BadMarkup, EndTag("a")>>  \* <a><b/><c</a>
DocOpen == <<StartTag("ab", EmptyDict)>>                                      \* <ab>
DocReply == <<EmptyTag("ab", Y1)>>                                            \* <ab y="1"/>
DocBadRoot == <<BadMarkup>>                                                    \* <a
DocNone == <<>>                                                                \* the empty string

Docs == {DocTree, DocBadChild, DocBadLate, DocOpen, DocReply, DocBadRoot, DocNone}

\* the state of an XMLParser with its TreeBuilder: the heap with the elements
\* built so far, the stack of open elements, the root, the start events
\* reported, and whether the parser has raised
NewParser(heap) ==
    [heap |-> heap, stack |-> <<>>, root |-> 0, events |-> <<>>, err |-> FALSE]

\* the parser consumes one markup item
FeedItem(st, item) ==
    LET depth == Len(st.stack)
        id == Len(st.heap) + 1
        grown == Append(st.heap, Element(item.tag, item.attrib))
        linked == IF depth = 0 THEN grown ELSE AppendChild(grown, st.stack[depth], id)
    IN CASE item.k \in {"start", "empty"} ->
                IF depth = 0 /\ st.root # 0
                THEN [st EXCEPT !.err = TRUE]          \* junk after document element
                ELSE [st EXCEPT !.heap = linked,
                                !.stack = IF item.k = "start" THEN Append(@, id) ELSE @,
                                !.root = IF @ = 0 THEN id ELSE @,
                                !.events = Append(@, id)]
         [] item.k = "end" ->
                IF depth = 0 \/ st.heap[st.stack[depth]].tag # item.tag
                THEN [st EXCEPT !.err = TRUE]          \* mismatched tag
                ELSE [st EXCEPT !.stack = SubSeq(@, 1, depth - 1)]
         [] OTHER -> [st EXCEPT !.err = TRUE]          \* not well-formed

\* parser.feed(data), data being items i..j of the document; the parser stops
\* at the first error
RECURSIVE Feed(_, _, _, _)
Feed(st, items, i, j) ==
    IF i > j \/ st.err THEN st ELSE Feed(FeedItem(st, items[i]), items, i + 1, j)

\* parser.close() raises unless exactly one element was opened and closed
CloseFails(st) == st.err \/ st.root = 0 \/ Len(st.stack) > 0

\* ET.fromstring(text): feed everything, close, return the root
fromstring(heap, items) ==
    LET st == Feed(NewParser(heap), items, 1, Len(items))
    IN IF CloseFails(st)
       THEN [kind |-> "ParseError", heap |-> heap, ele |-> 0]
       ELSE [kind |-> "ok", heap |-> st.heap, ele |-> st.root]

\* to_ele that returns a copy of an Element it is given
to_ele_copy(heap, x) ==
    IF x.t = "ele"
    THEN [kind |-> "ok", heap |-> Append(heap, heap[x.id]), ele |-> Len(heap) + 1]
    ELSE fromstring(heap, x.s)

\* to_ele, line 75-81: x if iselement(x) else ET.fromstring(x)
to_ele(heap, x) ==
    IF x.t = "ele"
    THEN [kind |-> "ok", heap |-> heap, ele |-> x.id]
    ELSE fromstring(heap, x.s)

-----------------------------------------------------------------------------
(* validated_element, line 97-121 *)

\* line 109-110: a string becomes a one-item list
TagsList(tags) == IF IsBasestring(tags) THEN ListV(<<tags>>) ELSE tags

\* line 108-112: the tag check raises
TagCheckFails(e, tags) ==
    Truthy(tags) /\ ~ PyIn(StrV(e.tag), TagsList(tags))

\* line 115 without the wrapping of a string
ReqList_unwrapped(req) == req

\* line 115: a string becomes a one-item list
ReqList(req) == IF IsBasestring(req) THEN ListV(<<req>>) ELSE req

\* line 116-118: some alternative of req is an attribute of the element
ReqSatisfied(e, req) ==
    LET alts == PyIter(ReqList(req))
    IN \E i \in DOMAIN alts : alts[i].t = "str" /\ alts[i].s \in DOMAIN e.attrib

\* line 113-120: the attribute check raises
AttrCheckFails(e, attrs) ==
    /\ Truthy(attrs)
    /\ LET reqs == PyIter(attrs)
       IN \E i \in DOMAIN reqs : ~ ReqSatisfied(e, reqs[i])

validated_element(heap, x, tags, attrs) ==
    LET r == to_ele(heap, x)
    IN IF r.kind # "ok"
       THEN [kind |-> r.kind, heap |-> heap, ele |-> 0, msg |-> ""]
       ELSE LET e == r.heap[r.ele]
            IN IF TagCheckFails(e, tags)
               THEN [kind |-> "XMLError", heap |-> heap, ele |-> 0,
                     msg |-> "Element [" \o e.tag \o "] does not meet requirement"]
               ELSE IF AttrCheckFails(e, attrs)
               THEN [kind |-> "XMLError", heap |-> heap, ele |-> 0,
                     msg |-> "Element [" \o e.tag \o "] does not have required attributes"]
               ELSE [kind |-> "ok", heap |-> r.heap, ele |-> r.ele, msg |-> ""]

-----------------------------------------------------------------------------
(* qualify, line 61 *)

Omitted == [t |-> "omitted"]

\* qualify that tests the namespace for truth instead of for None
qualify_falsy(tag, nsArg) ==
    LET ns == IF nsArg.t = "omitted" THEN StrV(BASE_NS_1_0) ELSE nsArg
    IN IF ~ Truthy(ns) THEN tag ELSE "{" \o ns.s \o "}" \o tag

\* tag if ns is None else '{%s}%s' % (ns, tag), ns defaulting to BASE_NS_1_0
qualify(tag, nsArg) ==
    LET ns == IF nsArg.t = "omitted" THEN StrV(BASE_NS_1_0) ELSE nsArg
    IN IF ns.t = "None" THEN tag ELSE "{" \o ns.s \o "}" \o tag

-----------------------------------------------------------------------------
(* to_xml, line 65-73 *)

\* the attributes of an element as the serializer writes them, in key order
AttrOrder == <<"x", "y">>

RECURSIVE SerializeAttrs(_, _)
SerializeAttrs(attrib, i) ==
    IF i > Len(AttrOrder) THEN ""
    ELSE (IF AttrOrder[i] \in DOMAIN attrib
          THEN " " \o AttrOrder[i] \o "=\"" \o attrib[AttrOrder[i]] \o "\""
          ELSE "")
         \o SerializeAttrs(attrib, i + 1)

\* the serialized element: <tag attrs /> or <tag attrs>children</tag>
RECURSIVE Serialize(_, _)
RECURSIVE SerializeAll(_, _, _)
SerializeAll(heap, ids, i) ==
    IF i > Len(ids) THEN "" ELSE Serialize(heap, ids[i]) \o SerializeAll(heap, ids, i + 1)

Serialize(heap, id) ==
    LET e == heap[id]
    IN "<" \o e.tag \o SerializeAttrs(e.attrib, 1)
       \o (IF Len(e.children) = 0
           THEN " />"
           ELSE ">" \o SerializeAll(heap, e.children, 1) \o "</" \o e.tag \o ">")

\* ElementTree.write emits its own declaration for every encoding but these
SerializerDeclares(encoding) == encoding \notin {"utf-8", "us-ascii"}

\* ET.tostring(ele, encoding)
ET_tostring(heap, id, encoding) ==
    (IF SerializerDeclares(encoding)
     THEN "<?xml version='1.0' encoding='" \o encoding \o "'?>\n"
     ELSE "")
    \o Serialize(heap, id)

\* to_xml that prepends its declaration whatever the serializer wrote
to_xml_always(heap, id, encoding) ==
    LET xml == ET_tostring(heap, id, encoding)
    IN "<?xml version=\"1.0\" encoding=\"" \o encoding \o "\"?>" \o xml

to_xml(heap, id, encoding) ==
    LET xml == ET_tostring(heap, id, encoding)
    IN IF startswith(xml, "<?xml")
       THEN xml
       ELSE "<?xml version=\"1.0\" encoding=\"" \o encoding \o "\"?>" \o xml

Encodings == {"UTF-8", "utf-8", "us-ascii"}

-----------------------------------------------------------------------------
(* parse_root, line 85-95 *)

Min(a, b) == IF a < b THEN a ELSE b

\* What the first next() of ET.iterparse(fp, events=('start',)) does, k reads
\* having been made: read a chunk and feed it; ElementTree 1.2 lets an error
\* of feed propagate at once, ElementTree 1.3 keeps it until the events
\* reported before it have been yielded; at end of file close the parser.
RECURSIVE iterparse_next(_, _, _, _)
iterparse_next(ver, st, items, k) ==
    LET lo == k * ChunkItems + 1
        hi == Min((k + 1) * ChunkItems, Len(items))
        fed == Feed([st EXCEPT !.events = <<>>], items, lo, hi)
    IN IF lo > Len(items)
       THEN [kind |-> IF CloseFails(st) THEN "ParseError" ELSE "StopIteration", ele |-> 0, heap |-> st.heap]
       ELSE IF ver = "1.2" /\ fed.err
       THEN [kind |-> "ParseError", ele |-> 0, heap |-> fed.heap]
       ELSE IF Len(fed.events) > 0
       THEN [kind |-> "event", ele |-> fed.events[1], heap |-> fed.heap]
       ELSE IF fed.err
       THEN [kind |-> "ParseError", ele |-> 0, heap |-> fed.heap]
       ELSE iterparse_next(ver, fed, items, k + 1)

NoResult == [kind |-> "ok", none |-> TRUE, tag |-> "", attrib |-> EmptyDict]

\* parse_root that parses the whole document before it looks at the root
parse_root_whole(ver, items) ==
    LET r == fromstring(<<>>, items)
    IN IF r.kind = "ok"
       THEN [kind |-> "ok", none |-> FALSE,
             tag |-> r.heap[r.ele].tag, attrib |-> r.heap[r.ele].attrib]
       ELSE [NoResult EXCEPT !.kind = "ParseError"]

\* return (element.tag, element.attrib) at the first event; None if there is none
parse_root(ver, items) ==
    LET r == iterparse_next(ver, NewParser(<<>>), items, 0)
    IN CASE r.kind = "event" ->
                [kind |-> "ok", none |-> FALSE,
                 tag |-> r.heap[r.ele].tag, attrib |-> r.heap[r.ele].attrib]
         [] r.kind = "StopIteration" -> NoResult
         [] OTHER -> [NoResult EXCEPT !.kind = "ParseError"]

-----------------------------------------------------------------------------
(* Initial state: the interpreter is about to run line 58 *)

NoCall == [op |-> "none"]
NoRet == [kind |-> "none"]

Init ==
    /\ etree \in {"1.2", "1.3"}
    /\ nsmap = LibraryNamespaceMap
    /\ pending = DOMAIN prefix_map
    /\ nregs = 0
    /\ lastOk = EmptyDict
    /\ elems = <<>>
    /\ call = NoCall
    /\ ret = NoRet

Loaded == pending = {}

\* one iteration of the loop at line 58-59; dict order is arbitrary
LoadRegister ==
    \E ns \in pending :
        LET pre == prefix_map[ns]
            r == register_namespace(etree, nsmap, pre, ns)
        IN /\ nsmap' = r.map
           /\ pending' = pending \ {ns}
           /\ lastOk' = IF r.kind = "ok" THEN DictSet(lastOk, ns, pre) ELSE lastOk
           /\ call' = [op |-> "load", prefix |-> pre, uri |-> ns]
           /\ ret' = [kind |-> r.kind]
           /\ UNCHANGED <<etree, nregs, elems>>

\* register_namespace(prefix, uri) called by a user of the module
RegisterNamespace ==
    /\ Loaded
    /\ nregs < MaxRegs
    /\ \E prefix \in RegPrefixes, uri \in RegUris :
        LET r == register_namespace(etree, nsmap, prefix, uri)
        IN /\ nsmap' = r.map
           /\ lastOk' = IF r.kind = "ok" THEN DictSet(lastOk, uri, prefix) ELSE lastOk
           /\ call' = [op |-> "register_namespace", prefix |-> prefix, uri |-> uri]
           /\ ret' = [kind |-> r.kind]
    /\ nregs' = nregs + 1
    /\ UNCHANGED <<etree, pending, elems>>

-----------------------------------------------------------------------------
(* Calls of the functions of the module, possible once it is loaded *)

Tags == {"a", "ab"}

\* (tag, attrs, extra) of the calls of new_ele and sub_ele; in the first,
\* extra and attrs give the same attribute
EleArgs == {<<"a", X1, X2>>, <<"ab", X1, Y1>>}

\* raw XML passed where an Element is expected
RawArgs == {DocReply, DocBadChild}

\* what a caller can pass as x: an Element alive, or raw XML
XArgs == {EleV(i) : i \in 1..Len(elems)} \cup {StrV(d) : d \in RawArgs}

TagsArgs ==
    {NoneV, StrV(""), StrV("a"), StrV("ab"),
     ListV(<<>>), ListV(<<StrV("a")>>), ListV(<<StrV("ab"), StrV("b")>>)}

AttrsArgs ==
    {NoneV, ListV(<<>>),
     ListV(<<StrV("x")>>), ListV(<<StrV("xy")>>),
     ListV(<<StrV("x"), StrV("y")>>),
     ListV(<<ListV(<<StrV("x"), StrV("y")>>)>>),
     ListV(<<ListV(<<>>)>>)}

\* (tags, attrs) of the calls of validated_element: every tag constraint
\* alone, every attribute constraint alone, and both together
ValidateArgs ==
    {<<t, NoneV>> : t \in TagsArgs}
    \cup {<<NoneV, a>> : a \in AttrsArgs}
    \cup {<<StrV("a"), ListV(<<StrV("x")>>)>>, <<StrV("ab"), ListV(<<StrV("xy")>>)>>}

NsArgs == {Omitted, NoneV, StrV(""), StrV(TAILF_AAA_1_1)}

Qualify ==
    /\ Loaded
    /\ \E tag \in Tags, ns \in NsArgs :
        /\ call' = [op |-> "qualify", tag |-> tag, ns |-> ns]
        /\ ret' = [kind |-> "ok", val |-> qualify(tag, ns)]
    /\ UNCHANGED <<etree, nsmap, pending, nregs, lastOk, elems>>

ToXml ==
    /\ Loaded
    /\ \E id \in 1..Len(elems), encoding \in Encodings :
        /\ call' = [op |-> "to_xml", ele |-> id, encoding |-> encoding]
        /\ ret' = [kind |-> "ok", val |-> to_xml(elems, id, encoding),
                   xml |-> ET_tostring(elems, id, encoding)]
    /\ UNCHANGED <<etree, nsmap, pending, nregs, lastOk, elems>>

ToEle ==
    /\ Loaded
    /\ \E x \in XArgs :
        LET r == to_ele(elems, x)
        IN /\ Len(r.heap) <= MaxElems
           /\ call' = [op |-> "to_ele", x |-> x]
           /\ ret' = [kind |-> r.kind, ele |-> r.ele]
           /\ elems' = r.heap
    /\ UNCHANGED <<etree, nsmap, pending, nregs, lastOk>>

ParseRoot ==
    /\ Loaded
    /\ \E d \in Docs :
        /\ call' = [op |-> "parse_root", raw |-> d]
        /\ ret' = parse_root(etree, d)
    /\ UNCHANGED <<etree, nsmap, pending, nregs, lastOk, elems>>

ValidatedElement ==
    /\ Loaded
    /\ \E x \in XArgs, ta \in ValidateArgs :
        LET tags == ta[1]
            attrs == ta[2]
            r == validated_element(elems, x, tags, attrs)
        IN /\ Len(r.heap) <= MaxElems
           /\ call' = [op |-> "validated_element", x |-> x, tags |-> tags, attrs |-> attrs]
           /\ ret' = [kind |-> r.kind, ele |-> r.ele, msg |-> r.msg]
           /\ elems' = r.heap
    /\ UNCHANGED <<etree, nsmap, pending, nregs, lastOk>>

NewEle ==
    /\ Loaded
    /\ Len(elems) < MaxElems
    /\ \E a \in EleArgs :
        LET tag == a[1]
            attrs == a[2]
            extra == a[3]
            r == new_ele(elems, tag, attrs, extra)
        IN /\ call' = [op |-> "new_ele", tag |-> tag, attrs |-> attrs, extra |-> extra]
           /\ ret' = [kind |-> "ok", ele |-> r.ele]
           /\ elems' = r.heap
    /\ UNCHANGED <<etree, nsmap, pending, nregs, lastOk>>

SubEle ==
    /\ Loaded
    /\ Len(elems) < MaxElems
    /\ \E parent \in 1..Len(elems), a \in EleArgs :
        LET tag == a[1]
            attrs == a[2]
            extra == a[3]
            r == sub_ele(elems, parent, tag, attrs, extra)
        IN /\ call' = [op |-> "sub_ele", parent |-> parent, tag |-> tag,
                       attrs |-> attrs, extra |-> extra]
           /\ ret' = [kind |-> "ok", ele |-> r.ele]
           /\ elems' = r.heap
    /\ UNCHANGED <<etree, nsmap, pending, nregs, lastOk>>

\* namespace registration: module load and later registrations
NextNs == LoadRegister \/ RegisterNamespace

SpecNs == Init /\ [][NextNs]_vars

\* Elements: construction, conversion, validation
NextEle == LoadRegister \/ NewEle \/ SubEle \/ ToEle \/ ValidatedElement

SpecEle == Init /\ [][NextEle]_vars

\* text: qualified names, serialization, root parsing
NextText == LoadRegister \/ NewEle \/ SubEle \/ Qualify \/ ToXml \/ ParseRoot

SpecText == Init /\ [][NextText]_vars

\* every function of the module but register_namespace
NextCalls ==
    \/ LoadRegister
    \/ Qualify
    \/ ToXml
    \/ ToEle
    \/ ParseRoot
    \/ ValidatedElement
    \/ NewEle
    \/ SubEle

SpecCalls == Init /\ [][NextCalls]_vars

\* every operation of the module
Next == NextNs \/ NextCalls

Spec == Init /\ [][Next]_vars

-----------------------------------------------------------------------------
(* Vocabulary of the properties *)

IsValidate == call.op = "validated_element"

\* the root start tag of raw XML, as an element
RootOf(items) == Element(items[1].tag, items[1].attrib)

\* the element a validated_element call examined (its input parsed)
Examined == IF call.x.t = "ele" THEN elems[call.x.id] ELSE RootOf(call.x.s)

\* name is the given name, or one of the given names
NameAmong(name, c) ==
    IF c.t = "str" THEN c.s = name
    ELSE \E i \in DOMAIN c.items : c.items[i].s = name

\* the alternative names of an entry of attrs
Alternatives(entry) ==
    IF entry.t = "str" THEN {entry.s}
    ELSE {entry.items[j].s : j \in DOMAIN entry.items}

TagRejected ==
    /\ ret.kind = "XMLError"
    /\ ret.msg = "Element [" \o Examined.tag \o "] does not meet requirement"

AttrRejected ==
    /\ ret.kind = "XMLError"
    /\ ret.msg = "Element [" \o Examined.tag \o "] does not have required attributes"

-----------------------------------------------------------------------------
\* C1: validated_element with a tag constraint, given as one name or as a
\* collection of names, raises XMLError on the tag check exactly when the
\* element's tag is not among the given names.
C1_TagConstraint ==
    (IsValidate /\ call.tags.t # "None" /\ ret.kind # "ParseError")
        => (TagRejected <=> ~ NameAmong(Examined.tag, call.tags))

\* C1 restricted to constraints that are not empty: the tag check raises
\* exactly when the tag is not among the names; an empty string or an empty
\* collection is treated as no constraint at all.
TagConstraintNonEmpty ==
    (IsValidate /\ call.tags.t # "None" /\ ret.kind # "ParseError")
        => IF Truthy(call.tags)
           THEN TagRejected <=> ~ NameAmong(Examined.tag, call.tags)
           ELSE ~ TagRejected

-----------------------------------------------------------------------------
\* C2: validated_element with an attribute constraint whose entries are a
\* name or a collection of alternative names: once the tag check has passed,
\* the call raises XMLError (for the attributes) if and only if some entry
\* has no alternative among the element's attributes, and succeeds otherwise.
C2_AttrConstraint ==
    (IsValidate /\ call.attrs.t = "list" /\ ret.kind # "ParseError" /\ ~ TagRejected)
        => LET unmet == \E i \in DOMAIN call.attrs.items :
                            Alternatives(call.attrs.items[i]) \cap DOMAIN Examined.attrib = {}
           IN /\ ret.kind = "XMLError" <=> unmet
              /\ AttrRejected <=> unmet
              /\ ret.kind = "ok" <=> ~ unmet

\* an element that has x but not y is refused by attrs = ["x", "y"]
C2_Witness ==
    /\ IsValidate
    /\ call.x.t = "ele"
    /\ call.attrs = ListV(<<StrV("x"), StrV("y")>>)
    /\ DOMAIN elems[call.x.id].attrib = {"x"}
    /\ AttrRejected

-----------------------------------------------------------------------------
\* C3: to_ele given an Element returns that very Element, and
\* validated_element on success returns the Element to_ele produced: the
\* Element passed in, or for raw XML the root Element just parsed.
C3_Identity ==
    (call.op \in {"to_ele", "validated_element"} /\ ret.kind = "ok")
        => IF call.x.t = "ele"
           THEN ret.ele = call.x.id
           ELSE /\ ret.ele \in 1..Len(elems)
                /\ elems[ret.ele].tag = RootOf(call.x.s).tag
                /\ elems[ret.ele].attrib = RootOf(call.x.s).attrib

\* an Element that meets a tag and an attribute constraint comes back itself
C3_Witness ==
    /\ IsValidate
    /\ call.x.t = "ele"
    /\ call.tags = StrV("a")
    /\ call.attrs = ListV(<<StrV("x")>>)
    /\ ret.kind = "ok"
    /\ ret.ele = call.x.id

-----------------------------------------------------------------------------
\* the declaration to_xml writes, and the one the serializer writes
Declaration(encoding) == "<?xml version=\"1.0\" encoding=\"" \o encoding \o "\"?>"
SerializerDeclaration(encoding) == "<?xml version='1.0' encoding='" \o encoding \o "'?>\n"

\* C4 as stated: the string to_xml returns starts with
\* <?xml version="1.0" encoding="<enc>"?> for the encoding passed in and
\* holds that declaration exactly once.
C4_Original ==
    call.op = "to_xml"
        => /\ startswith(ret.val, Declaration(call.encoding))
           /\ StrCount(ret.val, Declaration(call.encoding)) = 1

\* C4 as amended: the string to_xml returns is one XML declaration naming the
\* encoding passed in followed by the serialized element, and holds "<?xml"
\* exactly once: the declaration is the serializer's own, as the serializer
\* wrote it, when it wrote one, and otherwise the declaration
\* <?xml version="1.0" encoding="<enc>"?> that to_xml puts in front.
C4_Amended ==
    call.op = "to_xml"
        => LET body == Serialize(elems, call.ele)
           IN /\ StrCount(ret.val, "<?xml") = 1
              /\ IF startswith(ret.xml, "<?xml")
                 THEN ret.val = SerializerDeclaration(call.encoding) \o body
                 ELSE ret.val = Declaration(call.encoding) \o body

\* the serializer wrote a declaration of its own and to_xml added none
C4_Witness ==
    /\ call.op = "to_xml"
    /\ call.encoding = "UTF-8"
    /\ startswith(ret.xml, "<?xml")
    /\ ret.val = ret.xml

-----------------------------------------------------------------------------
\* C5: qualify returns the tag unchanged when the namespace is None,
\* '{' + namespace + '}' + tag for every other namespace, and uses
\* urn:ietf:params:xml:ns:netconf:base:1.0 when the namespace is omitted.
C5_Qualify ==
    call.op = "qualify"
        => ret.val = CASE call.ns.t = "None" -> call.tag
                       [] call.ns.t = "omitted" ->
                            "{urn:ietf:params:xml:ns:netconf:base:1.0}" \o call.tag
                       [] OTHER -> "{" \o call.ns.s \o "}" \o call.tag

\* qualify("a") with the namespace omitted
C5_Witness ==
    /\ call.op = "qualify"
    /\ call.ns = Omitted
    /\ ret.val = "{urn:ietf:params:xml:ns:netconf:base:1.0}a"

-----------------------------------------------------------------------------
IsRegistration == call.op \in {"load", "register_namespace"}

\* the prefixes of RegPrefixes of the form ns<digits>
ReservedForm == {"ns1"}

-----------------------------------------------------------------------------
\* the root start tag of the document is well-formed
RootStartOk(items) == Len(items) > 0 /\ items[1].k \in {"start", "empty"}

\* no markup of the first chunk iterparse reads is malformed
FirstChunkOk(items) ==
    \A i \in 1..Min(ChunkItems, Len(items)) : items[i].k # "bad"

ReturnsRoot ==
    /\ ret.kind = "ok"
    /\ ~ ret.none
    /\ ret.tag = call.raw[1].tag
    /\ ret.attrib = call.raw[1].attrib

\* C7 as stated: for every document whose root start tag is well-formed,
\* parse_root returns the root's tag and attributes and does not fail,
\* whatever follows the root start tag.
C7_Original ==
    (call.op = "parse_root" /\ RootStartOk(call.raw)) => ReturnsRoot

\* C7 as amended: for every document whose root start tag is well-formed,
\* parse_root returns the root's tag and attributes whatever follows, when
\* iterparse yields the events reported before a parse error (ElementTree
\* 1.3); with the iterparse of ElementTree 1.2 it does so unless malformed
\* markup lies in the first chunk read, and then it raises the parse error.
C7_Amended ==
    (call.op = "parse_root" /\ RootStartOk(call.raw))
        => IF etree = "1.3" \/ FirstChunkOk(call.raw)
           THEN ReturnsRoot
           ELSE ret.kind = "ParseError"

\* <a x="1"><b</a>: the root comes back although its child is malformed
C7_Witness ==
    /\ call.op = "parse_root"
    /\ call.raw = DocBadChild
    /\ ret.kind = "ok"
    /\ ret.tag = "a"
    /\ ret.attrib = X1

-----------------------------------------------------------------------------
BuiltinPrefix(u) ==
    CASE u = "urn:ietf:params:xml:ns:netconf:base:1.0" -> "nc"
      [] u = "http://tail-f.com/ns/aaa/1.1" -> "aaa"
      [] u = "http://tail-f.com/ns/execd/1.1" -> "execd"
      [] u = "http://www.cisco.com/cpi_10/schema" -> "cpi"
      [] u = "http://www.liberouter.org/ns/netopeer/flowmon/1.0" -> "fm"

BuiltinUris ==
    {"urn:ietf:params:xml:ns:netconf:base:1.0", "http://tail-f.com/ns/aaa/1.1",
     "http://tail-f.com/ns/execd/1.1", "http://www.cisco.com/cpi_10/schema",
     "http://www.liberouter.org/ns/netopeer/flowmon/1.0"}

\* C8: in whatever order the module-load loop registers the five built-in
\* entries, every entry registered so far maps its URI to its own prefix
\* (nc, aaa, execd, cpi, fm) at every point of the loop and at its end, so no
\* registration removes or changes another entry, nor one of the library's.
C8_LoadOrder ==
    nregs = 0
        => /\ pending \subseteq BuiltinUris
           /\ \A u \in BuiltinUris \ pending :
                u \in DOMAIN nsmap /\ nsmap[u] = BuiltinPrefix(u)
           /\ \A k \in DOMAIN LibraryNamespaceMap :
                k \in DOMAIN nsmap /\ nsmap[k] = LibraryNamespaceMap[k]

\* the loop has just registered its last entry, with ET.register_namespace
C8_Witness ==
    /\ Loaded
    /\ call.op = "load"
    /\ etree = "1.3"
    /\ \A u \in BuiltinUris : nsmap[u] = BuiltinPrefix(u)

-----------------------------------------------------------------------------
FrameOps ==
    {"qualify", "to_xml", "to_ele", "parse_root", "validated_element",
     "new_ele", "sub_ele"}

\* the Elements passed to a call
ArgEles(c) ==
    CASE c.op = "to_xml" -> {c.ele}
      [] c.op \in {"to_ele", "validated_element"} ->
            IF c.x.t = "ele" THEN {c.x.id} ELSE {}
      [] c.op = "sub_ele" -> {c.parent}
      [] OTHER -> {}

\* C9 as stated: a call of any function but register_namespace leaves the
\* prefix table unchanged and leaves the tag, attributes and children of
\* every Element passed to it unchanged.
C9_Original ==
    [][ call'.op \in FrameOps
        => /\ nsmap' = nsmap
           /\ \A i \in ArgEles(call') : elems'[i] = elems[i]
      ]_vars

\* C9 as amended: a call of any function but register_namespace leaves the
\* prefix table unchanged and leaves every existing Element unchanged, except
\* that sub_ele appends the Element it creates as the last child of parent
\* (parent's tag, attributes and earlier children stay as they were).
C9_Amended ==
    [][ call'.op \in FrameOps
        => /\ nsmap' = nsmap
           /\ Len(elems') >= Len(elems)
           /\ \A i \in 1..Len(elems) :
                IF call'.op = "sub_ele" /\ i = call'.parent
                THEN /\ ret'.ele = Len(elems) + 1
                     /\ elems'[i] = [elems[i] EXCEPT !.children = Append(@, ret'.ele)]
                ELSE elems'[i] = elems[i]
      ]_vars

\* sub_ele has given a parent its first child
C9_Witness ==
    /\ call.op = "sub_ele"
    /\ ret.ele = Len(elems)
    /\ elems[call.parent].children = <<ret.ele>>

-----------------------------------------------------------------------------
\* C10: a constraint written as one string is matched as one whole name: with
\* tags given as the string T the tag check passes only for an element whose
\* tag is T, and an entry of attrs given as the string A is met only by an
\* element that has an attribute named A.
C10_WholeName ==
    (IsValidate /\ ret.kind # "ParseError")
        => /\ (call.tags.t = "str" /\ ~ TagRejected) => Examined.tag = call.tags.s
           /\ (call.attrs.t = "list" /\ ret.kind = "ok")
                => \A i \in DOMAIN call.attrs.items :
                        call.attrs.items[i].t = "str"
                            => call.attrs.items[i].s \in DOMAIN Examined.attrib

\* C10 for strings that are not empty: T is matched as a whole name (tag a
\* does not pass tags = "ab"), and so is A (attribute x does not meet "xy").
WholeNameNonEmpty ==
    (IsValidate /\ ret.kind # "ParseError")
        => /\ (call.tags.t = "str" /\ Truthy(call.tags) /\ ~ TagRejected)
                => Examined.tag = call.tags.s
           /\ (call.attrs.t = "list" /\ ret.kind = "ok")
                => \A i \in DOMAIN call.attrs.items :
                        call.attrs.items[i].t = "str"
                            => call.attrs.items[i].s \in DOMAIN Examined.attrib

====
